---- MODULE Spec2Model ----
(***************************************************************************)
(* Model of app.py: a Flask application with ten routes, each accepting    *)
(* GET and POST, each logging the request and returning a canned response. *)
(* /no-response sleeps 600 seconds before it returns.                      *)
(*                                                                         *)
(* A request is (route, method, Content-Type, body).  The framework        *)
(* receives it, runs the view function of the route in a thread of its own *)
(* (app.run defaults to threaded=True) and turns what the view returns, or *)
(* the HTTP exception it raises, into the response.                        *)
(***************************************************************************)
EXTENDS Naturals, Sequences, FiniteSets

\* ---------------------------------------------------------------- bounds
\* Number of requests of any kind that may be in the server together (each
\* in a slot of its own).
MaxReq == 2
\* Number of further requests, each repeating one of the requests made before
\* it and made once those have been dealt with.
MaxRepeat == 1
\* Granularity of the model's clock, in seconds: time.sleep(600) is observed
\* every TickSeconds seconds.
TickSeconds == 300

\* ------------------------------------------------------ program constants
\* time.sleep(600)
SleepSeconds == 600

Reqs == 1..(MaxReq + MaxRepeat)

\* The slots of the requests that repeat an earlier one.
Repeats == (MaxReq + 1)..(MaxReq + MaxRepeat)

\* ---------------------------------------------------------------- inputs
Routes ==
    { "/no-response", "/malformed-response", "/empty-json-response",
      "/non-json-with-json-header", "/empty-structured-json",
      "/no-content-204", "/html-like-response", "/empty-body-200",
      "/simple-unexpected-json", "/specific-llm-like-response" }

Methods == { "GET", "POST" }

\* Content-Type headers a client may send.
CtJson == "application/json"
CtForm == "application/x-www-form-urlencoded"
CtOctet == "application/octet-stream"
ContentTypes == { CtJson, CtForm, CtOctet }

\* Request bodies: a JSON document, a form-encoded body (not JSON), and raw
\* bytes that are neither (BodyRaw stands for the two bytes 0x80 0x81).
BodyJson == "{\"a\": 1}"
BodyForm == "a=1"
BodyRaw == "<0x80 0x81>"
Bodies == { BodyJson, BodyForm, BodyRaw }

Requests == [ route : Routes, method : Methods, ctype : ContentTypes, body : Bodies ]

NoReq == [ route |-> "", method |-> "", ctype |-> "", body |-> "" ]

\* -------------------------------------------------- framework: the request
\* request.is_json: the mimetype says JSON (the body is not looked at).
is_json(rq) == rq.ctype = CtJson

\* json.loads on the request body succeeds.
JsonLoads(body) == body = BodyJson

\* repr() of the parsed JSON document, as the f-string formats it.
JsonRepr(body) == IF body = BodyJson THEN "{'a': 1}" ELSE "?"

\* The form parser meets bytes of a form-encoded body that it cannot decode.
FormUndecodable(rq) == rq.ctype = CtForm /\ rq.body = BodyRaw

\* repr() of request.form: the parsed fields for a form-encoded request, an
\* empty multi-dict for every other content type.  (Undecodable bytes are
\* replaced when the installed framework does not reject them.)
FormRepr(rq) ==
    IF rq.ctype = CtForm
    THEN CASE rq.body = BodyForm -> "ImmutableMultiDict([('a', '1')])"
           [] rq.body = BodyJson -> "ImmutableMultiDict([('{\"a\": 1}', '')])"
           [] OTHER -> "ImmutableMultiDict([('\\ufffd\\ufffd', '')])"
    ELSE "ImmutableMultiDict([])"

\* ------------------------------------------------- framework: the response
HtmlUtf8 == "text/html; charset=utf-8"

NoResp == [ status |-> 0, ctype |-> "", body |-> "" ]

\* request.json on a body that does not parse raises BadRequest, which the
\* framework answers for the view.
BadRequest ==
    [ status |-> 400, ctype |-> HtmlUtf8,
      body |-> "<!doctype html>\n<html lang=en>\n<title>400 Bad Request</title>\n<h1>Bad Request</h1>\n<p>The browser (or proxy) sent a request that this server could not understand.</p>\n" ]

\* request.form on a form-encoded body that does not decode raises
\* RequestEntityTooLarge when the installed framework rejects such bodies.
RequestEntityTooLarge ==
    [ status |-> 413, ctype |-> HtmlUtf8,
      body |-> "<!doctype html>\n<html lang=en>\n<title>413 Request Entity Too Large</title>\n<h1>Request Entity Too Large</h1>\n<p>The data value transmitted exceeds the capacity limit.</p>\n" ]

\* jsonify(data), status: the serialised document (compact, keys sorted,
\* newline-terminated) with mimetype application/json.
jsonify(serialised, status) ==
    [ status |-> status, ctype |-> "application/json", body |-> serialised \o "\n" ]

\* return body, status: a string becomes a response of the default mimetype.
StringResponse(body, status) ==
    [ status |-> status, ctype |-> HtmlUtf8, body |-> body ]

\* return body, status, {'Content-Type': ct}
HeaderResponse(body, status, ct) ==
    [ status |-> status, ctype |-> ct, body |-> body ]

\* Response(body, status=..., mimetype=...): a text mimetype gets the charset;
\* no mimetype means the default one.
Response(body, status, mimetype) ==
    [ status |-> status,
      ctype |-> IF mimetype = "" THEN HtmlUtf8 ELSE mimetype \o "; charset=utf-8",
      body |-> body ]

VARIABLES
    pc,         \* per request: "idle", "received", "logged", "body_logged",
                \* "sleeping", "woken", "done"
    req,        \* per request: the request received
    resp,       \* per request: the response the server produced
    elapsed,    \* per request: seconds spent in time.sleep
    connected,  \* per request: the client has not closed the connection
    arrivedDuringSleep, \* per request: some /no-response request was asleep at receipt
    log,        \* the logging output, in order
    formStrict  \* the installed framework rejects a form body it cannot decode
                \* (the code pins no version; fixed for the life of the process)

vars == << pc, req, resp, elapsed, connected, arrivedDuringSleep, log, formStrict >>

\* app.run(host='0.0.0.0', port=5000, debug=False): the development server
\* handles each request in a thread of its own.
Threaded == TRUE

\* The host can run the view function for request r now.
HostFree(r) == Threaded \/ \A q \in Reqs \ {r} : pc[q] # "sleeping"

\* ------------------------------------------------------------ the returns
no_response_return ==
    jsonify("{\"message\":\"This response should not be seen by the client due to timeout.\"}", 200)

malformed_json_string ==
    "{\"status\": \"error\", \"message\": \"This is malformed JSON, missing a closing brace or invalid syntax\", \"data\": [1, 2,"

malformed_response_return == HeaderResponse(malformed_json_string, 200, "application/json")

\* A view that answers from what earlier requests left behind: it answers
\* differently once a request to another route has been logged.
empty_json_response_return_stateful ==
    jsonify(IF \A i \in 1..Len(log) :
                 log[i].kind = "received" => req[log[i].req].route = "/empty-json-response"
            THEN "{}" ELSE "{\"seen\":true}", 200)

empty_json_response_return == jsonify("{}", 200)

non_json_with_json_header_return ==
    HeaderResponse("This is not JSON, but the header says it is!", 200, "application/json")

empty_structured_json_return ==
    jsonify("{\"details\":{},\"metadata\":[],\"output\":{\"model_response\":null,\"status\":\"success\",\"text\":\"\",\"tokens\":0}}", 200)

no_content_204_return == Response("", 204, "")

html_content ==
    "<html><body><h1>Hello from Test API!</h1><p>This is an HTML response.</p></body></html>"

html_like_response_return == Response(html_content, 200, "text/html")

empty_body_200_return == StringResponse("", 200)

simple_unexpected_json_return ==
    jsonify("{\"message\":\"This is a simple response.\",\"status\":\"ok\"}", 200)

specific_llm_like_response_return ==
    jsonify("{\"choices\":[{\"finish_reason\":\"string\",\"index\":\"string\",\"message\":{\"content\":\"string<>\",\"role\":\"string\"}}]}", 200)

\* --------------------------------------------------------------- logging
\* kind tells the three logging calls of a view function apart.
LogEntry(r, kind, level, msg) == [ req |-> r, kind |-> kind, level |-> level, msg |-> msg ]

\* logging.info(f"Received {request.method} request to <route>")
LogReceived(r) ==
    LogEntry(r, "received", "INFO", "Received " \o req[r].method \o " request to " \o req[r].route)

\* if request.method == 'POST':
\*     if request.is_json: logging.info(f"POST JSON data: {request.json}")
\*     else:               logging.info(f"POST form data: {request.form}")
\* error: the HTTP exception that request.json or request.form raised, with
\* which the view function was left (NoResp when none was raised).
LogPostBody(r) ==
    IF req[r].method = "POST"
    THEN IF is_json(req[r])
         THEN IF JsonLoads(req[r].body)
              THEN [ error |-> NoResp,
                     entries |-> << LogEntry(r, "json", "INFO", "POST JSON data: " \o JsonRepr(req[r].body)) >> ]
              ELSE [ error |-> BadRequest, entries |-> << >> ]
         ELSE IF FormUndecodable(req[r]) /\ formStrict
              THEN [ error |-> RequestEntityTooLarge, entries |-> << >> ]
              ELSE [ error |-> NoResp,
                     entries |-> << LogEntry(r, "form", "INFO", "POST form data: " \o FormRepr(req[r])) >> ]
    ELSE [ error |-> NoResp, entries |-> << >> ]

\* The view function of request r is left with an HTTP exception.
Raised(r) == LogPostBody(r).error # NoResp

\* ---------------------------------------------------------------- state
Init ==
    /\ pc = [ r \in Reqs |-> "idle" ]
    /\ req = [ r \in Reqs |-> NoReq ]
    /\ resp = [ r \in Reqs |-> NoResp ]
    /\ elapsed = [ r \in Reqs |-> 0 ]
    /\ connected = [ r \in Reqs |-> TRUE ]
    /\ arrivedDuringSleep = [ r \in Reqs |-> FALSE ]
    /\ log = << >>
    /\ formStrict \in BOOLEAN

\* The framework receives a request and routes it by path.  Requests take the
\* slots in order of arrival.
Receive(r) ==
    /\ r \notin Repeats
    /\ pc[r] = "idle"
    /\ \A q \in Reqs : q < r => pc[q] # "idle"
    /\ \E rq \in Requests : req' = [ req EXCEPT ![r] = rq ]
    /\ pc' = [ pc EXCEPT ![r] = "received" ]
    /\ arrivedDuringSleep' =
         [ arrivedDuringSleep EXCEPT ![r] = \E s \in Reqs : pc[s] = "sleeping" ]
    /\ UNCHANGED << resp, elapsed, connected, log, formStrict >>

\* The framework receives a request that a client makes again, after the
\* requests before it have been dealt with.
ReceiveRepeat(r) ==
    /\ r \in Repeats
    /\ pc[r] = "idle"
    /\ \A q \in Reqs : q < r => pc[q] = "done"
    /\ \E q \in Reqs : q < r /\ req' = [ req EXCEPT ![r] = req[q] ]
    /\ pc' = [ pc EXCEPT ![r] = "received" ]
    /\ UNCHANGED << resp, elapsed, connected, arrivedDuringSleep, log, formStrict >>

\* First step of every view function: logging.info(f"Received ...").  The
\* logging lock is released after the line is written, so other request
\* threads may run before this one goes on.
LogRequest(r, route) ==
    /\ pc[r] = "received"
    /\ req[r].route = route
    /\ HostFree(r)
    /\ log' = log \o << LogReceived(r) >>
    /\ pc' = [ pc EXCEPT ![r] = "logged" ]
    /\ UNCHANGED << req, resp, elapsed, connected, arrivedDuringSleep, formStrict >>

\* Second step of a view function, taken by a POST whose body can be read:
\* read the body and write its log line.  The logging lock is released after
\* the line, so other request threads may run before the view goes on.
LogBody(r, route) ==
    /\ pc[r] = "logged"
    /\ req[r].route = route
    /\ LogPostBody(r).entries # << >>
    /\ log' = log \o LogPostBody(r).entries
    /\ pc' = [ pc EXCEPT ![r] = "body_logged" ]
    /\ UNCHANGED << req, resp, elapsed, connected, arrivedDuringSleep, formStrict >>

\* The view function is past its logging of the request: its body line is
\* written, or there is none to write (a GET, or the body accessor raising).
PastBodyLog(r) ==
    \/ pc[r] = "body_logged"
    \/ pc[r] = "logged" /\ LogPostBody(r).entries = << >>

\* Last step of a view function that does not sleep: return (or leave with
\* the HTTP exception that reading the body raised).
Return(r, route, ret) ==
    /\ PastBodyLog(r)
    /\ req[r].route = route
    /\ resp' = [ resp EXCEPT ![r] = IF Raised(r) THEN LogPostBody(r).error ELSE ret ]
    /\ pc' = [ pc EXCEPT ![r] = "done" ]
    /\ UNCHANGED << req, elapsed, connected, arrivedDuringSleep, log, formStrict >>

\* A view function that logs the request and returns without sleeping.
View(r, route, ret) ==
    \/ LogRequest(r, route)
    \/ LogBody(r, route)
    \/ Return(r, route, ret)

\* /no-response past its logging of the request: enter time.sleep(600) (or
\* leave with the HTTP exception that reading the body raised).
no_response_sleep(r) ==
    /\ PastBodyLog(r)
    /\ req[r].route = "/no-response"
    /\ IF Raised(r)
       THEN /\ resp' = [ resp EXCEPT ![r] = LogPostBody(r).error ]
            /\ pc' = [ pc EXCEPT ![r] = "done" ]
       ELSE /\ pc' = [ pc EXCEPT ![r] = "sleeping" ]
            /\ UNCHANGED resp
    /\ UNCHANGED << req, elapsed, connected, arrivedDuringSleep, log, formStrict >>

\* /no-response up to time.sleep(600).
no_response_endpoint(r) ==
    \/ LogRequest(r, "/no-response")
    \/ LogBody(r, "/no-response")
    \/ no_response_sleep(r)

\* time.sleep(600) in progress.
Sleep(r) ==
    /\ pc[r] = "sleeping"
    /\ elapsed[r] < SleepSeconds
    /\ elapsed' = [ elapsed EXCEPT ![r] = elapsed[r] + TickSeconds ]
    /\ UNCHANGED << pc, req, resp, connected, arrivedDuringSleep, log, formStrict >>

\* /no-response after time.sleep(600): log the warning.  The logging lock is
\* released after the line, so other request threads may run before the return.
no_response_wakeup(r) ==
    /\ pc[r] = "sleeping"
    /\ elapsed[r] >= SleepSeconds
    /\ log' = log \o << LogEntry(r, "warning", "WARNING",
                          "This line should ideally not be reached if client times out.") >>
    /\ pc' = [ pc EXCEPT ![r] = "woken" ]
    /\ UNCHANGED << req, resp, elapsed, connected, arrivedDuringSleep, formStrict >>

\* /no-response: return jsonify({"message": ...}), 200
no_response_respond(r) ==
    /\ pc[r] = "woken"
    /\ resp' = [ resp EXCEPT ![r] = no_response_return ]
    /\ pc' = [ pc EXCEPT ![r] = "done" ]
    /\ UNCHANGED << req, elapsed, connected, arrivedDuringSleep, log, formStrict >>

\* The client times out and closes the connection while the server sleeps.
ClientTimeout(r) ==
    /\ pc[r] = "sleeping"
    /\ connected[r]
    /\ connected' = [ connected EXCEPT ![r] = FALSE ]
    /\ UNCHANGED << pc, req, resp, elapsed, arrivedDuringSleep, log, formStrict >>

malformed_response_endpoint(r) == View(r, "/malformed-response", malformed_response_return)

empty_json_response_endpoint(r) == View(r, "/empty-json-response", empty_json_response_return)

non_json_with_json_header_endpoint(r) ==
    View(r, "/non-json-with-json-header", non_json_with_json_header_return)

empty_structured_json_endpoint(r) ==
    View(r, "/empty-structured-json", empty_structured_json_return)

no_content_204_endpoint(r) == View(r, "/no-content-204", no_content_204_return)

html_like_response_endpoint(r) == View(r, "/html-like-response", html_like_response_return)

empty_body_200_endpoint(r) == View(r, "/empty-body-200", empty_body_200_return)

simple_unexpected_json_endpoint(r) ==
    View(r, "/simple-unexpected-json", simple_unexpected_json_return)

specific_llm_like_response_endpoint(r) ==
    View(r, "/specific-llm-like-response", specific_llm_like_response_return)

Next ==
    \E r \in Reqs :
        \/ Receive(r)
        \/ ReceiveRepeat(r)
        \/ no_response_endpoint(r)
        \/ Sleep(r)
        \/ no_response_wakeup(r)
        \/ no_response_respond(r)
        \/ ClientTimeout(r)
        \/ malformed_response_endpoint(r)
        \/ empty_json_response_endpoint(r)
        \/ non_json_with_json_header_endpoint(r)
        \/ empty_structured_json_endpoint(r)
        \/ no_content_204_endpoint(r)
        \/ html_like_response_endpoint(r)
        \/ empty_body_200_endpoint(r)
        \/ simple_unexpected_json_endpoint(r)
        \/ specific_llm_like_response_endpoint(r)

Spec == Init /\ [][Next]_vars

\* The response each route's view function returns.
RouteResponse(route) ==
    CASE route = "/no-response" -> no_response_return
      [] route = "/malformed-response" -> malformed_response_return
      [] route = "/empty-json-response" -> empty_json_response_return
      [] route = "/non-json-with-json-header" -> non_json_with_json_header_return
      [] route = "/empty-structured-json" -> empty_structured_json_return
      [] route = "/no-content-204" -> no_content_204_return
      [] route = "/html-like-response" -> html_like_response_return
      [] route = "/empty-body-200" -> empty_body_200_return
      [] route = "/simple-unexpected-json" -> simple_unexpected_json_return
      [] route = "/specific-llm-like-response" -> specific_llm_like_response_return

Answered(r) == pc[r] = "done"

\* The body log entries written for request r.
BodyEntries(r) == SelectSeq(log, LAMBDA e : e.req = r /\ e.kind \in { "json", "form" })

\* The brackets of a response body that stand outside its string literals, in
\* order; "!" stands for text that is no JSON token.
Brackets(body) ==
    CASE body = malformed_json_string -> << "{", "[" >>
      [] body = empty_json_response_return.body -> << "{", "}" >>
      [] body = no_response_return.body -> << "{", "}" >>
      [] body = simple_unexpected_json_return.body -> << "{", "}" >>
      [] body = empty_structured_json_return.body ->
           << "{", "{", "}", "[", "]", "{", "}", "}" >>
      [] body = specific_llm_like_response_return.body ->
           << "{", "[", "{", "{", "}", "}", "]", "}" >>
      [] OTHER -> << "!" >>

\* What is still open after reading the brackets bs with `open` open.
RECURSIVE Unclosed(_, _)
Unclosed(bs, open) ==
    IF bs = << >> THEN open
    ELSE IF Head(bs) \in { "{", "[" } THEN Unclosed(Tail(bs), << Head(bs) >> \o open)
    ELSE IF /\ open # << >>
            /\ << Head(open), Head(bs) >> \in { << "{", "}" >>, << "[", "]" >> }
         THEN Unclosed(Tail(bs), Tail(open))
    ELSE << "!" >>

\* json.loads on a response body succeeds.
WellFormedJson(body) == Brackets(body) # << "!" >> /\ Unclosed(Brackets(body), << >>) = << >>

\* C1: every answered request has the response of its route's table entry,
\* so two requests to the same route that differ in method, Content-Type or
\* body have identical responses.
C1_FixedResponse ==
    /\ \A r \in Reqs : Answered(r) => resp[r] = RouteResponse(req[r].route)
    /\ \A r, s \in Reqs :
         Answered(r) /\ Answered(s) /\ req[r].route = req[s].route => resp[r] = resp[s]

\* C2: a POST whose body cannot be parsed (declared JSON but not valid JSON,
\* or neither JSON nor form encoding) gets no error outcome: it is answered
\* with the fixed response of its route.
C2_UnparsableBodyContained ==
    \A r \in Reqs :
        /\ Answered(r)
        /\ req[r].method = "POST"
        /\ \/ is_json(req[r]) /\ ~JsonLoads(req[r].body)
           \/ req[r].body = BodyRaw
        => resp[r].status < 400 /\ resp[r] = RouteResponse(req[r].route)

\* C3: a request to /no-response has no response before the 600 seconds of
\* suspension have elapsed.
C3_NoResponseBeforeSleepEnds ==
    \A r \in Reqs :
        req[r].route = "/no-response" /\ resp[r] # NoResp => elapsed[r] >= SleepSeconds

\* C4: the response to a request does not depend on the requests made before
\* it: any two answered requests with the same route, method, Content-Type and
\* body have the same response, whatever requests (to any routes, with any
\* methods and bodies) were handled before, between or beside them.
C4_Idempotent ==
    \A r, s \in Reqs :
        Answered(r) /\ Answered(s) /\ req[r] = req[s] => resp[r] = resp[s]

\* C4 witness: a request is made first and answered; a POST to another route,
\* with another body, is handled and leaves its lines in the log; then the
\* first request is made again and answered.
C4_Witness ==
    /\ Answered(1) /\ Answered(2) /\ Answered(3)
    /\ req[3] = req[1]
    /\ req[2].route # req[1].route
    /\ req[2].body # req[1].body
    /\ req[1].method = "POST" /\ req[2].method = "POST"
    /\ Len(log) = 6
    /\ log[1].req = 1 /\ log[2].req = 1
    /\ log[3].req = 2 /\ log[4].req = 2
    /\ log[5].req = 3 /\ log[6].req = 3

\* C5: a request to another route that arrives while a /no-response request
\* is suspended is handled without waiting for the suspension to end and gets
\* its fixed response.
C5_SleepDoesNotBlock ==
    \A r \in Reqs :
        req[r].route # "/no-response" /\ arrivedDuringSleep[r] =>
            /\ pc[r] = "received" => HostFree(r)
            /\ Answered(r) => resp[r] = RouteResponse(req[r].route)

\* C6: the response of /no-content-204 has status 204, an empty body and no
\* Content-Type header.
C6_NoContent204 ==
    \A r \in Reqs :
        Answered(r) /\ req[r].route = "/no-content-204" =>
            resp[r].status = 204 /\ resp[r].body = "" /\ resp[r].ctype = ""

\* C7: the response of /empty-body-200 has status 200, an empty body and no
\* content type.
C7_EmptyBody200 ==
    \A r \in Reqs :
        Answered(r) /\ req[r].route = "/empty-body-200" =>
            resp[r].status = 200 /\ resp[r].body = "" /\ resp[r].ctype = ""

\* C8: the response of /malformed-response has status 200 and Content-Type
\* application/json, and its body does not parse as JSON.
C8_MalformedResponse ==
    \A r \in Reqs :
        Answered(r) /\ req[r].route = "/malformed-response" =>
            /\ resp[r].status = 200
            /\ resp[r].ctype = "application/json"
            /\ ~WellFormedJson(resp[r].body)

\* C9: once the view function is past its logging, a POST has exactly one body
\* log entry (the parsed JSON when the body parses as JSON, the form content
\* when it does not) and a GET has none.
C9_OneBodyEntryPerPost ==
    \A r \in Reqs :
        pc[r] \in { "body_logged", "sleeping", "woken", "done" } =>
            IF req[r].method = "POST"
            THEN /\ Len(BodyEntries(r)) = 1
                 /\ BodyEntries(r)[1].kind = IF JsonLoads(req[r].body) THEN "json" ELSE "form"
            ELSE Len(BodyEntries(r)) = 0

\* C10: only /no-response suspends; a request to another route is answered
\* without suspension, and a request to /no-response whose client stays
\* connected is answered after the suspension with status 200 and the JSON
\* "message" body.  (The claim's "eventually" is not what fails: this is its
\* part about what the answers are.)
C10_Completion ==
    \A r \in Reqs :
        /\ pc[r] = "sleeping" => req[r].route = "/no-response"
        /\ Answered(r) /\ req[r].route # "/no-response" => elapsed[r] = 0
        /\ Answered(r) /\ req[r].route = "/no-response" /\ connected[r] =>
             elapsed[r] >= SleepSeconds /\ resp[r] = no_response_return
====
